---- MODULE Spec2Model ----
(***************************************************************************)
(* Kyoto path model for affine highest weight crystals                     *)
(* (src/src/sage/combinat/crystals/kyoto_path_model.py).                   *)
(*                                                                         *)
(* A parent is built from a cycle of perfect crystals and a weight; its    *)
(* elements are finite lists of crystal elements on which e_i / f_i act    *)
(* with lazy extension and contraction of the list.                        *)
(***************************************************************************)
EXTENDS Integers, Sequences, FiniteSets, TLC

VARIABLES cache, ninit, call, ret, parent, elt, last, pc, frame

vars == <<cache, ninit, call, ret, parent, elt, last, pc, frame>>

\* "no action" / None, for list- and pair-valued results (a list of a path
\* element and a crystal element are never empty).
None == <<>>

(***************************************************************************)
(* Bounds of the exploration.                                              *)
(***************************************************************************)
MaxLen == 4
MaxParents == 2

(***************************************************************************)
(* The crystals handed to the model: Kirillov-Reshetikhin crystals         *)
(* B^{r,s}.  A2_11, A2_21 are the crystals of the class docstring          *)
(* (types ['A',2,1], (r,s) = (1,1) and (2,1)); A1_11 and A1_12 are         *)
(* B^{1,1} and B^{1,2} of type ['A',1,1] (levels 1 and 2); C2_11 is        *)
(* B^{1,1} of type ['C',2,1], which is not perfect.                        *)
(* A crystal element is a pair <<crystal, letter(s)>>.                     *)
(***************************************************************************)
CrystalNames == {"A2_11", "A2_21", "A1_11", "A1_12", "C2_11"}

cartan_type(B) ==
    CASE B \in {"A2_11", "A2_21"} -> "A21"
      [] B \in {"A1_11", "A1_12"} -> "A11"
      [] B = "C2_11" -> "C21"

index_set(ct) ==
    CASE ct = "A21" -> 0 .. 2
      [] ct = "A11" -> 0 .. 1
      [] ct = "C21" -> 0 .. 2

is_perfect(B) == B # "C2_11"

level(B) ==
    CASE B \in {"A2_11", "A2_21", "A1_11"} -> 1
      [] B = "A1_12" -> 2

\* The letters of each crystal (a column 12 stands for the tableau [[1],[2]],
\* a row 12 of A1_12 for [[1,2]]; 8 and 9 stand for the letters -2 and -1).
Letters(B) ==
    CASE B = "A2_11" -> {1, 2, 3}
      [] B = "A2_21" -> {12, 13, 23}
      [] B = "A1_11" -> {1, 2}
      [] B = "A1_12" -> {11, 12, 22}
      [] B = "C2_11" -> {1, 2, 8, 9}

Elements(B) == {<<B, v>> : v \in Letters(B)}

\* The crystal graph: <<v, i, w>> stands for f_i(v) = w.
Arrows(B) ==
    CASE B = "A2_11" -> {<<1, 1, 2>>, <<2, 2, 3>>, <<3, 0, 1>>}
      [] B = "A2_21" -> {<<12, 2, 13>>, <<13, 1, 23>>, <<23, 0, 12>>}
      [] B = "A1_11" -> {<<1, 1, 2>>, <<2, 0, 1>>}
      [] B = "A1_12" -> {<<11, 1, 12>>, <<12, 1, 22>>, <<22, 0, 12>>, <<12, 0, 11>>}
      [] B = "C2_11" -> {<<1, 1, 2>>, <<2, 2, 8>>, <<8, 1, 9>>, <<9, 0, 1>>}

\* b.f(i) and b.e(i) of a crystal element.
crystal_f(b, i) ==
    LET out == {a \in Arrows(b[1]) : a[1] = b[2] /\ a[2] = i}
    IN  IF out = {} THEN None ELSE <<b[1], (CHOOSE a \in out : TRUE)[3]>>

crystal_e(b, i) ==
    LET in == {a \in Arrows(b[1]) : a[3] = b[2] /\ a[2] = i}
    IN  IF in = {} THEN None ELSE <<b[1], (CHOOSE a \in in : TRUE)[1]>>

\* The lengths of the i-strings through b: the number of times e_i, resp.
\* f_i, applies.
RECURSIVE e_length(_, _)
e_length(b, i) ==
    IF crystal_e(b, i) = None THEN 0 ELSE 1 + e_length(crystal_e(b, i), i)

RECURSIVE f_length(_, _)
f_length(b, i) ==
    IF crystal_f(b, i) = None THEN 0 ELSE 1 + f_length(crystal_f(b, i), i)

AllElements == UNION {Elements(B) : B \in CrystalNames}

\* b.Epsilon(), b.Phi(): the weights sum_i epsilon_i(b) Lambda_i and
\* sum_i phi_i(b) Lambda_i, as coefficient vectors over the index set,
\* tabulated per element.
EpsilonTable ==
    [b \in AllElements |-> [i \in index_set(cartan_type(b[1])) |-> e_length(b, i)]]

PhiTable ==
    [b \in AllElements |-> [i \in index_set(cartan_type(b[1])) |-> f_length(b, i)]]

Epsilon(b) == EpsilonTable[b]

Phi(b) == PhiTable[b]

\* b.epsilon(i), b.phi(i)
crystal_epsilon(b, i) == EpsilonTable[b][i]

crystal_phi(b, i) == PhiTable[b][i]

(***************************************************************************)
(* Construction: KyotoPathModel(crystals, weight).                         *)
(***************************************************************************)

\* The tuples of crystals a caller passes.
CrystalTuples ==
    { <<>>,
      <<"A2_11">>, <<"A2_11", "A2_21">>, <<"A2_11", "A2_21", "A2_11">>,
      <<"A1_12">>,
      <<"C2_11">>, <<"A1_11", "A1_12">>, <<"A1_12", "A1_11", "C2_11">> }

\* The Python values of the argument `crystals`: a crystal, a tuple or a list.
CrystalArgs ==
    {[type |-> "crystal", val |-> <<B>>] : B \in CrystalNames}
    \cup {[type |-> t, val |-> s] : t \in {"tuple", "list"}, s \in CrystalTuples}

\* The weights a caller passes, in the weight space of the Cartan type of the
\* first crystal: 0, Lambda[0], Lambda[0]+Lambda[1], 2*Lambda[0].
Weights(ct) ==
    { [i \in index_set(ct) |-> 0],
      [i \in index_set(ct) |-> IF i = 0 THEN 1 ELSE 0],
      [i \in index_set(ct) |-> IF i <= 1 THEN 1 ELSE 0],
      [i \in index_set(ct) |-> IF i = 0 THEN 2 ELSE 0] }

WeightArgs(c) ==
    IF c.val = <<>> THEN Weights("A11") ELSE Weights(cartan_type(c.val[1]))

RECURSIVE SumOver(_, _)
SumOver(S, w) ==
    IF S = {} THEN 0
    ELSE LET i == CHOOSE j \in S : TRUE IN w[i] + SumOver(S \ {i}, w)

\* ct.dual().c(): the marks of the canonical central element (all 1 for the
\* types A_n^(1) whose crystals pass the first two checks).
dual_c(ct) == [i \in index_set(ct) |-> 1]

\* sum( ct.dual().c()[i] * weight.scalar(h) for i,h in enumerate(coroots) )
weight_level(ct, weight) ==
    SumOver(index_set(ct), [i \in index_set(ct) |-> dual_c(ct)[i] * weight[i]])

\* Normalize without the conversion of a list.
Normalize_keep_list(crystals) ==
    IF crystals.type # "tuple" /\ crystals.type # "list"
      THEN [type |-> "tuple", val |-> <<crystals.val[1]>>]
    ELSE crystals

\* Lines 195-198: a list becomes a tuple, a single crystal a 1-tuple.
Normalize(crystals) ==
    IF crystals.type = "list" THEN [type |-> "tuple", val |-> crystals.val]
    ELSE IF crystals.type # "tuple" THEN [type |-> "tuple", val |-> <<crystals.val[1]>>]
    ELSE crystals

Raise(e) == [kind |-> "error", err |-> e, id |-> 0]

\* The checks with the weight tested before the levels are compared.
classcall_private_weight_first(crystals0, weight) ==
    LET crystals == Normalize(crystals0)
        cs == crystals.val
    IN  IF \E k \in 1 .. Len(cs) : ~is_perfect(cs[k])
          THEN Raise("ValueError: all crystals must be perfect")
        ELSE IF cs = <<>>
          THEN Raise("IndexError")
        ELSE IF weight_level(cartan_type(cs[1]), weight) # level(cs[1])
          THEN Raise("ValueError: not a level weight")
        ELSE IF \E k \in 2 .. Len(cs) : level(cs[k]) # level(cs[1])
          THEN Raise("ValueError: all crystals must have the same level")
        ELSE [kind |-> "ok", crystals |-> crystals, weight |-> weight]

\* Lines 200-210: the checks, in the order of the code; "ok" stands for
\* reaching the call of the cached constructor with the normalized arguments.
classcall_private(crystals0, weight) ==
    LET crystals == Normalize(crystals0)
        cs == crystals.val
    IN  IF \E k \in 1 .. Len(cs) : ~is_perfect(cs[k])
          THEN Raise("ValueError: all crystals must be perfect")
        ELSE IF cs = <<>>
          THEN Raise("IndexError")
        ELSE IF \E k \in 2 .. Len(cs) : level(cs[k]) # level(cs[1])
          THEN Raise("ValueError: all crystals must have the same level")
        ELSE IF weight_level(cartan_type(cs[1]), weight) # level(cs[1])
          THEN Raise("ValueError: not a level weight")
        ELSE [kind |-> "ok", crystals |-> crystals, weight |-> weight]

\* {b.Epsilon():b for b in B} and {b.Phi():b for b in B}
epsilon_dict(B) ==
    [w \in {Epsilon(b) : b \in Elements(B)} |->
        CHOOSE b \in Elements(B) : Epsilon(b) = w]

phi_dict(B) ==
    [w \in {Phi(b) : b \in Elements(B)} |->
        CHOOSE b \in Elements(B) : Phi(b) = w]

\* Lines 223-230: the parent built by __init__ (id is the object identity).
\* A dictionary lookup d[key] with a missing key is a KeyError in the code
\* and an evaluation error here.
init(id, crystals, weight) ==
    LET cs == crystals.val
        phi_dicts == [k \in 1 .. Len(cs) |-> phi_dict(cs[k])]
    IN  [id |-> id,
         cartan_type |-> cartan_type(cs[1]),
         crystals |-> crystals,
         weight |-> weight,
         epsilon_dicts |-> [k \in 1 .. Len(cs) |-> epsilon_dict(cs[k])],
         phi_dicts |-> phi_dicts,
         module_generators |-> << <<phi_dicts[1][weight]>> >>]

\* The cached constructor behind line 210: the instance cached for equal
\* arguments, if any.
Cached(crystals, weight) ==
    {p \in cache : p.crystals = crystals /\ p.weight = weight}

NoCall == [type |-> "none", val |-> <<>>, weight |-> <<>>, ninit |-> 0]
NoRet == [kind |-> "none", err |-> "", id |-> 0]
NoParent == [id |-> 0]
NoLast == [op |-> "none", i |-> 0, arg |-> <<>>, val |-> <<>>, n |-> 0]
NoFrame == [i |-> 0, x |-> <<>>, n |-> 0]

\* One call KyotoPathModel(c, w).
Construct ==
    \E c \in CrystalArgs : \E w \in WeightArgs(c) :
        LET out == classcall_private(c, w) IN
        /\ call' = [type |-> c.type, val |-> c.val, weight |-> w, ninit |-> ninit]
        /\ IF out.kind = "error"
             THEN /\ ret' = out
                  /\ UNCHANGED <<cache, ninit>>
           ELSE IF Cached(out.crystals, out.weight) # {}
             THEN /\ ret' = [kind |-> "parent", err |-> "",
                             id |-> (CHOOSE p \in Cached(out.crystals, out.weight) : TRUE).id]
                  /\ UNCHANGED <<cache, ninit>>
           ELSE LET P == init(ninit + 1, out.crystals, out.weight) IN
                  /\ Cardinality(cache) < MaxParents
                  /\ ninit' = ninit + 1
                  /\ ret' = [kind |-> "parent", err |-> "", id |-> P.id]
                  /\ cache' = cache \cup {P}
        /\ UNCHANGED <<parent, elt, last, pc, frame>>

ConstructInit ==
    /\ cache = {}
    /\ ninit = 0
    /\ call = NoCall
    /\ ret = NoRet
    /\ parent = NoParent
    /\ elt = <<>>
    /\ last = NoLast
    /\ pc = "idle"
    /\ frame = NoFrame

ConstructNext == Construct

ConstructSpec == ConstructInit /\ [][ConstructNext]_vars

(***************************************************************************)
(* Elements: lists of crystal elements.  Positions are 0-based as in the   *)
(* code; l[k+1] is the code's self[k].                                     *)
(***************************************************************************)

Reverse(l) == [j \in 1 .. Len(l) |-> l[Len(l) + 1 - j]]

\* The signature rule of a tensor product of regular crystals
\* (anti-Kashiwara convention): scanning from the left, the phi_i of a factor
\* is cancelled against the epsilon_i accumulated on its left; a factor whose
\* phi_i is not wholly cancelled holds an unmatched minus.
RECURSIVE minus_scan(_, _, _, _)
minus_scan(l, i, j, height) ==
    IF j >= Len(l) THEN <<>>
    ELSE LET minus == crystal_phi(l[j + 1], i)
             plus == crystal_epsilon(l[j + 1], i)
         IN  IF height - minus < 0
               THEN <<j>> \o minus_scan(l, i, j + 1, plus)
               ELSE minus_scan(l, i, j + 1, height - minus + plus)

\* The dual scan: the epsilon_i of a factor is cancelled against the phi_i
\* accumulated before it.
RECURSIVE plus_scan(_, _, _, _)
plus_scan(l, i, j, height) ==
    IF j >= Len(l) THEN <<>>
    ELSE LET plus == crystal_epsilon(l[j + 1], i)
             minus == crystal_phi(l[j + 1], i)
         IN  IF height - plus < 0
               THEN <<j>> \o plus_scan(l, i, j + 1, minus)
               ELSE plus_scan(l, i, j + 1, height - plus + minus)

\* The positions of the unmatched minus at color i, in increasing order.
positions_of_unmatched_minus(l, i) == minus_scan(l, i, 0, 0)

\* The positions of the unmatched plus at color i, in increasing order: the
\* dual scan of the reversed list, mapped back.
positions_of_unmatched_plus(l, i) ==
    LET p == Reverse(plus_scan(Reverse(l), i, 0, 0))
    IN  [j \in 1 .. Len(p) |-> Len(l) - 1 - p[j]]

\* self.set_index(k, value)
set_index(l, k, value) == [l EXCEPT ![k + 1] = value]

\* e_at without the test for the last position.
e_at_no_last_test(l, i, k) ==
    LET crystal == crystal_e(l[k + 1], i) IN
    IF k = Len(l) - 2 /\ Epsilon(crystal) = Phi(l[Len(l)])
      THEN LET l2 == SubSeq(l, 1, Len(l) - 1)
           IN  [l2 EXCEPT ![Len(l2)] = crystal]
      ELSE set_index(l, k, crystal)

\* e_at comparing Epsilon of the entry before e_i is applied to it.
e_at_compares_old(l, i, k) ==
    IF k = Len(l) - 1 THEN None
    ELSE LET crystal == crystal_e(l[k + 1], i) IN
         IF k = Len(l) - 2 /\ Epsilon(l[k + 1]) = Phi(l[Len(l)])
           THEN LET l2 == SubSeq(l, 1, Len(l) - 1)
                IN  [l2 EXCEPT ![Len(l2)] = crystal]
           ELSE set_index(l, k, crystal)

\* e_at without the contraction.
e_at_no_contract(l, i, k) ==
    IF k = Len(l) - 1 THEN None
    ELSE set_index(l, k, crystal_e(l[k + 1], i))

\* Lines 324-331: Element.e once the left-most unmatched plus is found at k.
e_at(l, i, k) ==
    IF k = Len(l) - 1 THEN None
    ELSE LET crystal == crystal_e(l[k + 1], i) IN
         IF k = Len(l) - 2 /\ Epsilon(crystal) = Phi(l[Len(l)])
           THEN LET l2 == SubSeq(l, 1, Len(l) - 1)
                IN  [l2 EXCEPT ![Len(l2)] = crystal]
           ELSE set_index(l, k, crystal)

\* Lines 320-331: Element.e (k is bound to the value of position[0]).
e(l, i) ==
    LET position == positions_of_unmatched_plus(l, i) IN
    IF position = <<>> THEN None
    ELSE CHOOSE r \in {e_at(l, i, k) : k \in {position[1]}} : TRUE

\* f_at applying f_i to the last entry before the lookup of the new entry.
f_at_lookup_after_f(P, l, i, k) ==
    IF k = Len(l) - 1
      THEN LET kk == Len(l) % Len(P.crystals.val)
               l1 == set_index(l, k, crystal_f(l[k + 1], i))
           IN  Append(l1, P.phi_dicts[kk + 1][Epsilon(l1[Len(l1)])])
      ELSE set_index(l, k, crystal_f(l[k + 1], i))

\* f_at taking the crystal of the last position for the new entry.
f_at_wrong_cycle(P, l, i, k) ==
    IF k = Len(l) - 1
      THEN LET kk == (Len(l) - 1) % Len(P.crystals.val)
               l2 == Append(l, P.phi_dicts[kk + 1][Epsilon(l[Len(l)])])
           IN  [l2 EXCEPT ![Len(l2) - 1] = crystal_f(l2[Len(l2) - 1], i)]
      ELSE set_index(l, k, crystal_f(l[k + 1], i))

\* Lines 353-359: Element.f once the right-most unmatched minus is found at k.
f_at(P, l, i, k) ==
    IF k = Len(l) - 1
      THEN LET kk == Len(l) % Len(P.crystals.val)
               l2 == Append(l, P.phi_dicts[kk + 1][Epsilon(l[Len(l)])])
           IN  [l2 EXCEPT ![Len(l2) - 1] = crystal_f(l2[Len(l2) - 1], i)]
      ELSE set_index(l, k, crystal_f(l[k + 1], i))

\* f returning self where there is no unmatched minus.
f_returns_self(P, l, i) ==
    LET position == positions_of_unmatched_minus(l, i) IN
    IF position = <<>> THEN l
    ELSE CHOOSE r \in {f_at(P, l, i, k) : k \in {position[Len(position)]}} : TRUE

\* f acting at the left-most unmatched minus.
f_first_minus(P, l, i) ==
    LET position == positions_of_unmatched_minus(l, i) IN
    IF position = <<>> THEN None
    ELSE CHOOSE r \in {f_at(P, l, i, k) : k \in {position[1]}} : TRUE

\* Lines 349-359: Element.f (k is bound to the value of position[-1]).
f(P, l, i) ==
    LET position == positions_of_unmatched_minus(l, i) IN
    IF position = <<>> THEN None
    ELSE CHOOSE r \in {f_at(P, l, i, k) : k \in {position[Len(position)]}} : TRUE

\* x.e(i) on the current element.
E(i) ==
    /\ pc = "idle"
    /\ LET r == e(elt, i) IN
         /\ last' = [op |-> "e", i |-> i, arg |-> elt, val |-> r, n |-> 0]
         /\ elt' = IF r = None THEN elt ELSE r
    /\ UNCHANGED <<cache, ninit, call, ret, parent, pc, frame>>

\* x.f(i) on the current element (lists are explored up to MaxLen entries).
F(i) ==
    /\ pc = "idle"
    /\ LET r == f(parent, elt, i) IN
         /\ Len(r) <= MaxLen
         /\ last' = [op |-> "f", i |-> i, arg |-> elt, val |-> r, n |-> 0]
         /\ elt' = IF r = None THEN elt ELSE r
    /\ UNCHANGED <<cache, ninit, call, ret, parent, pc, frame>>

\* epsilon starting its loop at self instead of self.e(i).
epsilon_call_from_self(i) ==
    /\ pc = "idle"
    /\ pc' = "epsilon"
    /\ frame' = [i |-> i, x |-> elt, n |-> 0]
    /\ UNCHANGED <<cache, ninit, call, ret, parent, elt, last>>

\* Lines 272-273: x = self.e(i); eps = 0
epsilon_call(i) ==
    /\ pc = "idle"
    /\ pc' = "epsilon"
    /\ frame' = [i |-> i, x |-> e(elt, i), n |-> 0]
    /\ UNCHANGED <<cache, ninit, call, ret, parent, elt, last>>

\* Lines 274-276: one turn of the loop
epsilon_loop ==
    /\ pc = "epsilon"
    /\ frame.x # None
    /\ frame' = [frame EXCEPT !.x = e(frame.x, frame.i), !.n = frame.n + 1]
    /\ UNCHANGED <<cache, ninit, call, ret, parent, elt, last, pc>>

\* Line 277: return eps
epsilon_return ==
    /\ pc = "epsilon"
    /\ frame.x = None
    /\ last' = [op |-> "epsilon", i |-> frame.i, arg |-> elt, val |-> None, n |-> frame.n]
    /\ pc' = "idle"
    /\ frame' = NoFrame
    /\ UNCHANGED <<cache, ninit, call, ret, parent, elt>>

\* Lines 298-299: x = self.f(i); phi = 0
phi_call(i) ==
    /\ pc = "idle"
    /\ pc' = "phi"
    /\ frame' = [i |-> i, x |-> f(parent, elt, i), n |-> 0]
    /\ UNCHANGED <<cache, ninit, call, ret, parent, elt, last>>

\* Lines 300-302: one turn of the loop
phi_loop ==
    /\ pc = "phi"
    /\ frame.x # None
    /\ frame' = [frame EXCEPT !.x = f(parent, frame.x, frame.i), !.n = frame.n + 1]
    /\ UNCHANGED <<cache, ninit, call, ret, parent, elt, last, pc>>

\* Line 303: return phi
phi_return ==
    /\ pc = "phi"
    /\ frame.x = None
    /\ last' = [op |-> "phi", i |-> frame.i, arg |-> elt, val |-> None, n |-> frame.n]
    /\ pc' = "idle"
    /\ frame' = NoFrame
    /\ UNCHANGED <<cache, ninit, call, ret, parent, elt>>

\* The state after a successful construction: the parent is the one built
\* for the arguments, the element is its module generator.
Init ==
    \E c \in CrystalArgs : \E w \in WeightArgs(c) :
        LET out == classcall_private(c, w) IN
        /\ out.kind = "ok"
        /\ parent = init(1, out.crystals, out.weight)
        /\ cache = {parent}
        /\ ninit = 1
        /\ call = NoCall
        /\ ret = NoRet
        /\ elt = parent.module_generators[1]
        /\ last = NoLast
        /\ pc = "idle"
        /\ frame = NoFrame

Next ==
    \/ \E i \in index_set(parent.cartan_type) : E(i)
    \/ \E i \in index_set(parent.cartan_type) : F(i)
    \/ \E i \in index_set(parent.cartan_type) : epsilon_call(i)
    \/ epsilon_loop
    \/ epsilon_return
    \/ \E i \in index_set(parent.cartan_type) : phi_call(i)
    \/ phi_loop
    \/ phi_return

Spec == Init /\ [][Next]_vars

\* The loops of epsilon and phi keep running once called.
FairSpec == Spec /\ WF_vars(epsilon_loop \/ epsilon_return \/ phi_loop \/ phi_return)

(***************************************************************************)
(* Properties.                                                             *)
(***************************************************************************)

Max(a, b) == IF a >= b THEN a ELSE b

\* C1 (as stated): f(i) is total, it never returns None.
C1_FTotal == last.op = "f" => last.val # None

\* C1 (amended): f(i) returns None exactly when the list has no unmatched
\* minus at color i; otherwise it returns a list of the same length, or of
\* one more entry exactly when the right-most unmatched minus is at the last
\* position.
C1_FNoneIffNoUnmatchedMinus ==
    last.op = "f" =>
        LET pos == positions_of_unmatched_minus(last.arg, last.i)
            N == Len(last.arg)
        IN  /\ last.val = None <=> pos = <<>>
            /\ last.val # None =>
                  /\ Len(last.val) \in {N, N + 1}
                  /\ Len(last.val) = N + 1 <=> pos[Len(pos)] = N - 1

C1_Witness ==
    /\ last.op = "f"
    /\ last.val = None
    /\ Len(last.arg) >= 2

\* C2: e(i) and f(i) are mutual partial inverses: f(i)(e(i)(x)) = x when
\* e(i)(x) is not None, and e(i)(f(i)(x)) = x when f(i)(x) is not None.
C2_MutualInverses ==
    /\ last.op = "e" /\ last.val # None => f(parent, last.val, last.i) = last.arg
    /\ last.op = "f" /\ last.val # None => e(last.val, last.i) = last.arg

C2_Witness ==
    /\ last.op = "e"
    /\ last.val # None
    /\ Len(last.val) = Len(last.arg) - 1
    /\ f(parent, last.val, last.i) = last.arg

\* C3: e(i)(x) is None exactly when x has no unmatched plus at color i or
\* the left-most one is at the last position; e(i) acts strictly before the
\* last position, leaves every other entry it keeps as it was, and is None on
\* every list of length one.
C3_ENoneIff ==
    last.op = "e" =>
        LET pos == positions_of_unmatched_plus(last.arg, last.i)
            N == Len(last.arg)
        IN  /\ last.val = None <=> (pos = <<>> \/ pos[1] = N - 1)
            /\ last.val # None =>
                  /\ pos[1] < N - 1
                  /\ \A j \in 1 .. Len(last.val) :
                        j # pos[1] + 1 => last.val[j] = last.arg[j]
            /\ N = 1 => last.val = None

C3_Witness ==
    /\ last.op = "e"
    /\ last.val = None
    /\ Len(last.arg) >= 2
    /\ positions_of_unmatched_plus(last.arg, last.i) # <<>>
    /\ positions_of_unmatched_plus(last.arg, last.i)[1] = Len(last.arg) - 1

\* C4: the checks of the construction are made in the order perfect, same
\* level, weight of that level, the first failing one decides the error, and
\* a failing call creates no parent (the cache and the number of parents
\* built are as before the call).
C4_FirstFailingCheck ==
    call.type # "none" /\ call.val # <<>> =>
        LET cs == call.val
            perfect == \A k \in 1 .. Len(cs) : is_perfect(cs[k])
            samelevel == \A k \in 2 .. Len(cs) : level(cs[k]) = level(cs[1])
            inlevel == weight_level(cartan_type(cs[1]), call.weight) = level(cs[1])
        IN  /\ ~perfect => ret = Raise("ValueError: all crystals must be perfect")
            /\ perfect /\ ~samelevel =>
                  ret = Raise("ValueError: all crystals must have the same level")
            /\ perfect /\ samelevel /\ ~inlevel =>
                  ret = Raise("ValueError: not a level weight")
            /\ perfect /\ samelevel /\ inlevel => ret.kind = "parent"

\* C4: the first failing check decides the error in every state, and a step
\* whose call fails leaves the cache and the number of parents built alone.
C4_ValidationOrder ==
    /\ []C4_FirstFailingCheck
    /\ [][ret'.kind = "error" => cache' = cache /\ ninit' = ninit]_vars

C4_Witness ==
    /\ ret = Raise("ValueError: all crystals must have the same level")
    /\ weight_level(cartan_type(call.val[1]), call.weight) # level(call.val[1])

\* C5: calls whose arguments hold the same crystals in the same order (as a
\* crystal, a tuple or a list) and the same weight return the same parent:
\* the cache holds one parent per such key, a successful call returns the
\* cached parent of its key, parents stay cached, and __init__ has run once
\* per cached parent.
C5_OnePerKey ==
    /\ \A p, q \in cache :
          (p.crystals.val = q.crystals.val /\ p.weight = q.weight) \/ p.id = q.id
            => p = q
    /\ ret.kind = "parent" =>
          \E p \in cache : /\ p.id = ret.id
                            /\ p.crystals.val = call.val
                            /\ p.weight = call.weight
    /\ ninit = Cardinality(cache)

\* C5: one cached parent per key in every state, and no step drops a parent
\* from the cache, so equal keys get the identical parent.
C5_UniqueParent ==
    /\ []C5_OnePerKey
    /\ [][cache \subseteq cache']_vars

C5_Witness ==
    /\ ret.kind = "parent"
    /\ call.type = "list"
    /\ call.ninit = ninit
    /\ ret.id < ninit

\* n successive applications of e(i), resp. f(i); None once one of them is.
RECURSIVE e_string(_, _, _)
e_string(l, i, n) ==
    IF n = 0 \/ l = None THEN l ELSE e_string(e(l, i), i, n - 1)

RECURSIVE f_string(_, _, _, _)
f_string(P, l, i, n) ==
    IF n = 0 \/ l = None THEN l ELSE f_string(P, f(P, l, i), i, n - 1)

\* C6: epsilon(i) and phi(i) terminate, and return the number of successful
\* applications of e(i), resp. f(i): that many applications succeed, one
\* more gives None, and the value is 0 iff the first application is None.
C6_Counts ==
    /\ last.op = "epsilon" =>
          /\ last.n >= 0
          /\ e_string(last.arg, last.i, last.n) # None
          /\ e_string(last.arg, last.i, last.n + 1) = None
          /\ last.n = 0 <=> e(last.arg, last.i) = None
    /\ last.op = "phi" =>
          /\ last.n >= 0
          /\ f_string(parent, last.arg, last.i, last.n) # None
          /\ f_string(parent, last.arg, last.i, last.n + 1) = None
          /\ last.n = 0 <=> f(parent, last.arg, last.i) = None

\* C6: the value returned is the number of successful applications, and a
\* running epsilon or phi eventually returns.
C6_Terminates ==
    /\ []C6_Counts
    /\ [](pc # "idle" => <>(pc = "idle"))

C6_Witness ==
    /\ last.op = "phi"
    /\ last.n >= 2
    /\ Len(last.arg) >= 2

\* epsilon_i and phi_i of a finite tensor product b(0) (x) ... (x) b(m-1),
\* both 0 for the empty product.
RECURSIVE tensor_epsilon(_, _)
tensor_epsilon(l, i) ==
    IF l = <<>> THEN 0
    ELSE LET b == l[Len(l)]
             front == SubSeq(l, 1, Len(l) - 1)
         IN  crystal_epsilon(b, i) + Max(tensor_epsilon(front, i) - crystal_phi(b, i), 0)

RECURSIVE tensor_phi(_, _)
tensor_phi(l, i) ==
    IF l = <<>> THEN 0
    ELSE LET b == l[Len(l)]
             front == SubSeq(l, 1, Len(l) - 1)
         IN  tensor_phi(front, i) + Max(crystal_phi(b, i) - tensor_epsilon(front, i), 0)

\* C7: with x = b' (x) b_last, epsilon(i)(x) = max(epsilon_i(b') -
\* phi_i(b_last), 0) and phi(i)(x) = phi_i(b') + max(phi_i(b_last) -
\* epsilon_i(b'), 0).
C7_DocumentedStructure ==
    LET N == Len(last.arg)
        front == SubSeq(last.arg, 1, N - 1)
        b_last == last.arg[N]
    IN  /\ last.op = "epsilon" =>
              last.n = Max(tensor_epsilon(front, last.i) - crystal_phi(b_last, last.i), 0)
        /\ last.op = "phi" =>
              last.n = tensor_phi(front, last.i)
                       + Max(crystal_phi(b_last, last.i) - tensor_epsilon(front, last.i), 0)

C7_Witness ==
    /\ last.op = "phi"
    /\ Len(last.arg) >= 3
    /\ tensor_phi(SubSeq(last.arg, 1, Len(last.arg) - 1), last.i) >= 1
    /\ crystal_phi(last.arg[Len(last.arg)], last.i)
         > tensor_epsilon(SubSeq(last.arg, 1, Len(last.arg) - 1), last.i)

\* C8: f(i) acting at the last position of b(0..N-1) gives N+1 entries:
\* b(0..N-2) unchanged, f_i(b(N-1)), and the element of crystals[N mod
\* cycleLength] whose Phi is Epsilon(b(N-1)); acting at k < N-1 it changes
\* entry k only.  Every entry k of the element is in crystals[k mod
\* cycleLength].
C8_Extension ==
    /\ last.op = "f" /\ last.val # None =>
          LET pos == positions_of_unmatched_minus(last.arg, last.i)
              k == pos[Len(pos)]
              N == Len(last.arg)
              cs == parent.crystals.val
          IN  IF k = N - 1
                THEN /\ Len(last.val) = N + 1
                     /\ \A j \in 1 .. N - 1 : last.val[j] = last.arg[j]
                     /\ last.val[N] = crystal_f(last.arg[N], last.i)
                     /\ last.val[N + 1] \in Elements(cs[(N % Len(cs)) + 1])
                     /\ Phi(last.val[N + 1]) = Epsilon(last.arg[N])
                ELSE /\ Len(last.val) = N
                     /\ \A j \in 1 .. N : j # k + 1 => last.val[j] = last.arg[j]
                     /\ last.val[k + 1] = crystal_f(last.arg[k + 1], last.i)
    /\ \A j \in 0 .. Len(elt) - 1 :
          elt[j + 1] \in Elements(parent.crystals.val[(j % Len(parent.crystals.val)) + 1])

C8_Witness ==
    /\ last.op = "f"
    /\ Len(last.val) = Len(last.arg) + 1
    /\ Len(parent.crystals.val) >= 2
    /\ Len(last.arg) >= Len(parent.crystals.val)
    /\ elt = last.val

\* C9: e(i) acting at k with b' = e_i(b(k)) drops the last entry (and puts
\* b' at k) iff k = N-2 and Epsilon(b') = Phi(b(N-1)); otherwise the result
\* has N entries and differs from the input at k only.
C9_Contraction ==
    last.op = "e" /\ last.val # None =>
        LET pos == positions_of_unmatched_plus(last.arg, last.i)
            k == pos[1]
            N == Len(last.arg)
            b1 == crystal_e(last.arg[k + 1], last.i)
            contract == k = N - 2 /\ Epsilon(b1) = Phi(last.arg[N])
        IN  /\ Len(last.val) = N - 1 <=> contract
            /\ contract => last.val = SubSeq(last.arg, 1, N - 2) \o <<b1>>
            /\ ~contract => last.val = [last.arg EXCEPT ![k + 1] = b1]
            /\ Len(last.val) \in {N - 1, N}

C9_Witness ==
    /\ last.op = "e"
    /\ last.val # None
    /\ Len(last.arg) >= 3
    /\ Len(last.val) = Len(last.arg) - 1

\* The ground-state entry g(k): g(0) is the element of crystals[0] with
\* Phi = weight, g(k+1) the element of crystals[(k+1) mod cycleLength] with
\* Phi = Epsilon(g(k)).
RECURSIVE ground(_, _)
ground(P, k) ==
    LET cs == P.crystals.val
        B == cs[(k % Len(cs)) + 1]
        target == IF k = 0 THEN P.weight ELSE Epsilon(ground(P, k - 1))
    IN  CHOOSE b \in Elements(B) : Phi(b) = target

\* C10: every reachable element is reduced: its last entry b(N-1) is g(N-1),
\* and for N >= 2 Epsilon(b(N-2)) differs from Phi(b(N-1)).
C10_Reduced ==
    LET N == Len(elt) IN
    /\ elt[N] = ground(parent, N - 1)
    /\ N >= 2 => Epsilon(elt[N - 1]) # Phi(elt[N])

C10_Witness ==
    /\ last.op = "e"
    /\ Len(last.arg) >= 3
    /\ elt = last.val
    /\ Len(last.val) = Len(last.arg) - 1

====
